---- MODULE Spec2Model ----
(***************************************************************************)
(* Model of src/handler.py: the Amazon Connect warm-transfer Lambda.       *)
(* lambda_handler validates one contact-flow event, optionally calls       *)
(* make_post_request (one HTTP POST with the requests library) and         *)
(* returns {statusCode, body}.  Python values are tagged records, Python   *)
(* exceptions are records [type, msg] with an explicit class hierarchy.    *)
(***************************************************************************)
EXTENDS Integers, Sequences, FiniteSets, TLC

(* ------------------------------ bounds --------------------------------- *)

\* number of handler invocations explored in one behaviour
MaxInvocations == 2

(* --------------------------- Python values ----------------------------- *)

\* a key that is not in a mapping (only used to build the input events)
Absent == [tag |-> "absent"]

\* Python None
None_ == [tag |-> "NoneType"]

\* a Python str
Str(s) == [tag |-> "str", s |-> s]

\* a Python dict; d is a function from keys to values
Dict(d) == [tag |-> "dict", d |-> d]

\* a local variable that has not been assigned yet
Unbound == [tag |-> "unbound"]

Opt(k, v) == IF v = Absent THEN {} ELSE {<<k, v>>}

MkDict(pairs) ==
    [k \in {p[1] : p \in pairs} |-> (CHOOSE p \in pairs : p[1] = k)[2]]

\* Python truthiness, as used by `if not x`
Truthy(v) ==
    CASE v.tag = "str"  -> v.s # ""
      [] v.tag = "dict" -> DOMAIN v.d # {}
      [] OTHER          -> FALSE

\* only dict has a .get method
HasGet(v) == v.tag = "dict"

\* dict.get(key, default)
DictGet(v, key, default) == IF key \in DOMAIN v.d THEN v.d[key] ELSE default

\* str(x) as used by the f-string at line 105
PyStr(v) ==
    CASE v.tag = "str"      -> v.s
      [] v.tag = "NoneType" -> "None"

\* {**a, **b}
Merge(a, b) ==
    [k \in DOMAIN a \cup DOMAIN b |-> IF k \in DOMAIN b THEN b[k] ELSE a[k]]

(* --------------------------- exceptions -------------------------------- *)

NoExc == [type |-> "none", msg |-> ""]

Raise(type, msg) == [type |-> type, msg |-> msg]

\* the classes an exception of the given class is an instance of
Mro(type) ==
    CASE type = "ValueError"      -> {"ValueError", "Exception"}
      [] type = "AttributeError"  -> {"AttributeError", "Exception"}
      [] type = "APIError"        -> {"APIError", "Exception"}
      [] type = "ConnectionError" ->
            {"ConnectionError", "RequestException", "Exception"}
      [] type = "ReadTimeout"     ->
            {"ReadTimeout", "Timeout", "RequestException", "Exception"}
      [] type = "HTTPError"       ->
            {"HTTPError", "RequestException", "Exception"}
      \* json.JSONDecodeError (raised by response.json() of requests < 2.27)
      [] type = "json.JSONDecodeError" ->
            {"json.JSONDecodeError", "ValueError", "Exception"}
      \* requests.exceptions.JSONDecodeError (requests >= 2.27)
      [] type = "requests.JSONDecodeError" ->
            {"requests.JSONDecodeError", "InvalidJSONError",
             "RequestException", "json.JSONDecodeError", "ValueError",
             "Exception"}
      [] OTHER -> {}

IsInstance(e, cls) == cls \in Mro(e.type)

AttributeErrorFor(v) ==
    Raise("AttributeError", "'" \o v.tag \o "' object has no attribute 'get'")

(* ------------------------------ inputs --------------------------------- *)

AddressVals == {Absent, None_, Str(""), Str("+15550001111")}

CustomerEndpointVals ==
    {Absent, None_} \cup {Dict(MkDict(Opt("Address", a))) : a \in AddressVals}

ContactDataVals ==
    {Absent, None_} \cup
    {Dict(MkDict(Opt("CustomerEndpoint", ce))) : ce \in CustomerEndpointVals}

RequestTypeVals ==
    {Absent, None_, Str(""), Str("post"), Str("get"), Str("put")}

CustomDataVals == {Absent, Dict(<<>>), Dict([order_id |-> Str("A1")])}

ParametersVals ==
    {Absent, None_} \cup
    {Dict(MkDict(Opt("requestType", rt) \cup Opt("customData", cd))) :
        rt \in RequestTypeVals, cd \in CustomDataVals}

DetailsVals ==
    {Absent, None_} \cup
    {Dict(MkDict(Opt("ContactData", c) \cup Opt("Parameters", p))) :
        c \in ContactDataVals, p \in ParametersVals}

\* the events the host runtime may pass to lambda_handler
Events == {None_} \cup {Dict(MkDict(Opt("Details", d))) : d \in DetailsVals}

\* os.getenv('BRAINBASE_API_KEY')
EnvKeyVals == {None_, Str(""), Str("secret-key")}

\* the class response.json() raises on an undecodable body depends on the
\* installed requests release (the repository pins none)
JsonErrorClasses == {"json.JSONDecodeError", "requests.JSONDecodeError"}

(* ----------------------- the remote endpoint --------------------------- *)

URL == "https://uyxceqsk5d.execute-api.us-east-1.amazonaws.com/default/warm_transfer_api"

Timeout == 5

\* final status codes requests.post may hand back
StatusCodes == {200, 304, 404, 503}

\* response bodies
BodyTexts == {"{\"status\": \"ok\"}", "{}", "<html>Bad Gateway</html>"}

\* transport failures of requests.post
TransportErrors ==
    {Raise("ConnectionError", "Connection refused"),
     Raise("ReadTimeout", "Read timed out. (read timeout=5)")}

IsJson(text) == text \in {"{\"status\": \"ok\"}", "{}"}

\* json.loads on the bodies above
JsonLoads(text) ==
    CASE text = "{\"status\": \"ok\"}" -> Dict([status |-> Str("ok")])
      [] text = "{}"                   -> Dict(<<>>)

StatusText(code) ==
    CASE code = 404 -> "404 Client Error: Not Found for url: " \o URL
      [] code = 503 -> "503 Server Error: Service Unavailable for url: " \o URL
      [] OTHER      -> ""

\* Response.raise_for_status raises HTTPError for 4xx and 5xx only
RaisesForStatus(code) == (400 <= code /\ code < 500) \/ (500 <= code /\ code < 600)

(* ------------------------------ state ---------------------------------- *)

VARIABLES
    env_api_key,      \* BRAINBASE_API_KEY in the process environment
    json_error_class, \* what response.json() raises in this deployment
    invocations,      \* handler invocations started so far
    pc,               \* position of the running invocation
    event,            \* the argument of lambda_handler
    contact_data,     \* locals of lambda_handler
    parameters,
    phone_number,
    custom_data,
    request_type,
    api_response,
    response_data,
    api_key,          \* locals of make_post_request
    response,
    exc,              \* the exception in flight
    result,           \* the value lambda_handler returned
    outbound,         \* HTTP requests sent during this invocation
    log               \* log records written during this invocation

vars == <<env_api_key, json_error_class, invocations, pc, event, contact_data,
          parameters, phone_number, custom_data, request_type, api_response,
          response_data, api_key, response, exc, result, outbound, log>>

env == <<env_api_key, json_error_class, invocations, event>>

NoResult == [statusCode |-> 0, body |-> <<>>]

NoResponse == [status_code |-> 0, text |-> ""]

LogRec(level, msg) == [level |-> level, msg |-> msg]

Init ==
    /\ env_api_key \in EnvKeyVals
    /\ json_error_class \in JsonErrorClasses
    /\ invocations = 0
    /\ pc = "idle"
    /\ event = Unbound
    /\ contact_data = Unbound
    /\ parameters = Unbound
    /\ phone_number = Unbound
    /\ custom_data = Unbound
    /\ request_type = Unbound
    /\ api_response = Unbound
    /\ response_data = <<>>
    /\ api_key = Unbound
    /\ response = NoResponse
    /\ exc = NoExc
    /\ result = NoResult
    /\ outbound = <<>>
    /\ log = <<>>

(* --------------------------- lambda_handler ---------------------------- *)

\* the runtime calls lambda_handler(event, context)
Invoke ==
    /\ pc \in {"idle", "returned"}
    /\ invocations < MaxInvocations
    /\ \E ev \in Events : event' = ev
    /\ invocations' = invocations + 1
    /\ pc' = "extract"
    /\ contact_data' = Unbound
    /\ parameters' = Unbound
    /\ phone_number' = Unbound
    /\ custom_data' = Unbound
    /\ request_type' = Unbound
    /\ api_response' = Unbound
    /\ response_data' = <<>>
    /\ api_key' = Unbound
    /\ response' = NoResponse
    /\ exc' = NoExc
    /\ result' = NoResult
    /\ outbound' = <<>>
    /\ log' = <<>>
    /\ UNCHANGED <<env_api_key, json_error_class>>

\* lines 72-75
ExtractEvent ==
    /\ pc = "extract"
    /\ log' = Append(log, LogRec("INFO", "Received event: %s"))
    /\ IF ~HasGet(event)
       THEN /\ exc' = AttributeErrorFor(event)
            /\ pc' = "except"
            /\ UNCHANGED <<contact_data, parameters>>
       ELSE LET cd == DictGet(event, "Details", Dict(<<>>))
            IN  IF ~HasGet(cd)
                THEN /\ contact_data' = cd
                     /\ exc' = AttributeErrorFor(cd)
                     /\ pc' = "except"
                     /\ UNCHANGED parameters
                ELSE /\ contact_data' = cd
                     /\ parameters' = DictGet(cd, "Parameters", Dict(<<>>))
                     /\ pc' = "phone"
                     /\ UNCHANGED exc
    /\ UNCHANGED <<env, phone_number, custom_data, request_type, api_response,
                   response_data, api_key, response, result, outbound>>

\* variant: `if phone_number is None`
PhoneMissing_NoneOnly(p) == p = None_

\* line 79: `if not phone_number`
PhoneMissing(p) == ~Truthy(p)

\* lines 78-80
ValidatePhone ==
    /\ pc = "phone"
    /\ LET cdata == DictGet(contact_data, "ContactData", Dict(<<>>))
       IN  IF ~HasGet(cdata)
           THEN /\ exc' = AttributeErrorFor(cdata)
                /\ pc' = "except"
                /\ UNCHANGED phone_number
           ELSE LET ce == DictGet(cdata, "CustomerEndpoint", Dict(<<>>))
                IN  IF ~HasGet(ce)
                    THEN /\ exc' = AttributeErrorFor(ce)
                         /\ pc' = "except"
                         /\ UNCHANGED phone_number
                    ELSE LET p == DictGet(ce, "Address", None_)
                         IN  /\ phone_number' = p
                             /\ IF PhoneMissing(p)
                                THEN /\ exc' = Raise("ValueError",
                                            "Missing phone number in request")
                                     /\ pc' = "except"
                                ELSE /\ pc' = "custom_data"
                                     /\ UNCHANGED exc
    /\ UNCHANGED <<env, contact_data, parameters, custom_data, request_type,
                   api_response, response_data, api_key, response, result,
                   outbound, log>>

\* variant: the default is never substituted
CustomDataOrDefault_NoDefault(cd) == cd

\* lines 83-85: the value custom_data holds after the falsy check
CustomDataOrDefault(cd) == IF ~Truthy(cd) THEN Dict(<<>>) ELSE cd

\* lines 82-85
ExtractCustomData ==
    /\ pc = "custom_data"
    /\ IF ~HasGet(parameters)
       THEN /\ exc' = AttributeErrorFor(parameters)
            /\ pc' = "except"
            /\ UNCHANGED <<custom_data, log>>
       ELSE LET cd == DictGet(parameters, "customData", None_)
            IN  /\ custom_data' = CustomDataOrDefault(cd)
                /\ log' = IF ~Truthy(cd)
                          THEN Append(log, LogRec("WARNING",
                                                  "No custom data provided"))
                          ELSE log
                /\ pc' = "request_type"
                /\ UNCHANGED exc
    /\ UNCHANGED <<env, contact_data, parameters, phone_number, request_type,
                   api_response, response_data, api_key, response, result,
                   outbound>>

\* lines 87-89
ExtractRequestType ==
    /\ pc = "request_type"
    /\ LET rt == DictGet(parameters, "requestType", None_)
       IN  /\ request_type' = rt
           /\ IF ~Truthy(rt)
              THEN /\ exc' = Raise("ValueError", "Missing requestType parameter")
                   /\ pc' = "except"
              ELSE /\ pc' = "dispatch"
                   /\ UNCHANGED exc
    /\ UNCHANGED <<env, contact_data, parameters, phone_number, custom_data,
                   api_response, response_data, api_key, response, result,
                   outbound, log>>

\* variant: everything but "get" is posted
Branch_PostDefault(rt) == IF rt = Str("get") THEN "get" ELSE "post"

\* variant: everything but "post" is answered by the stub
Branch_GetDefault(rt) == IF rt = Str("post") THEN "post" ELSE "get"

\* lines 91, 98, 104: the branch taken for a request type
Branch(rt) ==
    IF rt = Str("post") THEN "post"
    ELSE IF rt = Str("get") THEN "get"
    ELSE "invalid"

\* lines 91-105 (the call at line 92 enters make_post_request)
Dispatch ==
    /\ pc = "dispatch"
    /\ LET b == Branch(request_type)
       IN  CASE b = "post" ->
                  /\ pc' = "mpr_key"
                  /\ UNCHANGED <<response_data, exc>>
             [] b = "get" ->
                  /\ response_data' = [message |-> "GET request not implemented"]
                  /\ pc' = "assemble"
                  /\ UNCHANGED exc
             [] OTHER ->
                  /\ exc' = Raise("ValueError",
                                  "Invalid requestType: " \o PyStr(request_type))
                  /\ pc' = "except"
                  /\ UNCHANGED response_data
    /\ UNCHANGED <<env, contact_data, parameters, phone_number, custom_data,
                   request_type, api_response, api_key, response, result,
                   outbound, log>>

(* -------------------------- make_post_request -------------------------- *)

\* variant: `if api_key is None`
KeyMissing_NoneOnly(k) == k = None_

\* variant: the key is not checked
KeyMissing_Never(k) == FALSE

\* line 32: `if not api_key`
KeyMissing(k) == ~Truthy(k)

\* lines 31-33
CheckApiKey ==
    /\ pc = "mpr_key"
    /\ api_key' = env_api_key
    /\ IF KeyMissing(env_api_key)
       THEN /\ exc' = Raise("APIError", "Missing API key")
            /\ pc' = "mpr_except"
       ELSE /\ pc' = "mpr_post"
            /\ UNCHANGED exc
    /\ UNCHANGED <<env, contact_data, parameters, phone_number, custom_data,
                   request_type, api_response, response_data, response,
                   result, outbound, log>>

\* lines 35-46: the request handed to requests.post
PostRequest(key, phone, data) ==
    [url     |-> URL,
     headers |-> [x_api_key |-> key, Content_Type |-> "application/json"],
     json    |-> [phone_number |-> phone, data |-> data],
     timeout |-> Timeout]

\* lines 35-46: one POST; the network decides what comes back
Post ==
    /\ pc = "mpr_post"
    /\ outbound' = Append(outbound, PostRequest(api_key, phone_number, custom_data))
    /\ \/ \E e \in TransportErrors :
             /\ exc' = e
             /\ pc' = "mpr_except"
             /\ UNCHANGED response
       \/ \E code \in StatusCodes, text \in BodyTexts :
             /\ response' = [status_code |-> code, text |-> text]
             /\ pc' = "mpr_status"
             /\ UNCHANGED exc
    /\ UNCHANGED <<env, contact_data, parameters, phone_number, custom_data,
                   request_type, api_response, response_data, api_key, result,
                   log>>

\* line 47
RaiseForStatus ==
    /\ pc = "mpr_status"
    /\ IF RaisesForStatus(response.status_code)
       THEN /\ exc' = Raise("HTTPError", StatusText(response.status_code))
            /\ pc' = "mpr_except"
       ELSE /\ pc' = "mpr_json"
            /\ UNCHANGED exc
    /\ UNCHANGED <<env, contact_data, parameters, phone_number, custom_data,
                   request_type, api_response, response_data, api_key, response,
                   result, outbound, log>>

\* line 48 (the returned value is bound to api_response at line 92)
ParseJson ==
    /\ pc = "mpr_json"
    /\ IF IsJson(response.text)
       THEN /\ api_response' = JsonLoads(response.text)
            /\ pc' = "post_return"
            /\ UNCHANGED exc
       ELSE /\ exc' = Raise(json_error_class,
                            "Expecting value: line 1 column 1 (char 0)")
            /\ pc' = "mpr_except"
            /\ UNCHANGED api_response
    /\ UNCHANGED <<env, contact_data, parameters, phone_number, custom_data,
                   request_type, response_data, api_key, response, result,
                   outbound, log>>

\* variant: `except Timeout`
Wrapped_TimeoutOnly(e) == IsInstance(e, "Timeout")

\* line 50: the exceptions the except clause of make_post_request catches
Wrapped(e) == IsInstance(e, "RequestException")

\* lines 50-52; anything else leaves make_post_request unchanged
MprExcept ==
    /\ pc = "mpr_except"
    /\ IF Wrapped(exc)
       THEN /\ log' = Append(log, LogRec("ERROR", "API request failed: " \o exc.msg))
            /\ exc' = Raise("APIError", "API request failed: " \o exc.msg)
       ELSE UNCHANGED <<exc, log>>
    /\ pc' = "except"
    /\ UNCHANGED <<env, contact_data, parameters, phone_number, custom_data,
                   request_type, api_response, response_data, api_key, response,
                   result, outbound>>

(* ---------------------- lambda_handler, continued ---------------------- *)

\* lines 93-96
PostResponseData ==
    /\ pc = "post_return"
    /\ response_data' = [api_response |-> api_response,
                         message |-> "Successfully processed POST request"]
    /\ pc' = "assemble"
    /\ UNCHANGED <<env, contact_data, parameters, phone_number, custom_data,
                   request_type, api_response, api_key, response, exc, result,
                   outbound, log>>

\* variant: the parameters are left out of the body
SuccessResponse_DataOnly(data, params) == [statusCode |-> 200, body |-> data]

\* lines 107-113
SuccessResponse(data, params) ==
    [statusCode |-> 200, body |-> Merge(data, [parameters |-> params])]

\* lines 107-116
AssembleResponse ==
    /\ pc = "assemble"
    /\ result' = SuccessResponse(response_data, parameters)
    /\ log' = Append(log, LogRec("INFO", "Response: %s"))
    /\ pc' = "returned"
    /\ UNCHANGED <<env, contact_data, parameters, phone_number, custom_data,
                   request_type, api_response, response_data, api_key, response,
                   exc, outbound>>

\* variant: `except APIError`
IsValidationOrApiError_ApiOnly(e) == IsInstance(e, "APIError")

\* line 118: `except (ValueError, APIError)`
IsValidationOrApiError(e) == IsInstance(e, "ValueError") \/ IsInstance(e, "APIError")

\* variant: `except RequestException`
IsCaught_RequestsOnly(e) == IsInstance(e, "RequestException")

\* line 128: `except Exception`
IsCaught(e) == IsInstance(e, "Exception")

\* lines 118-136; an exception no clause matches leaves the handler
HandleError ==
    /\ pc = "except"
    /\ IF IsValidationOrApiError(exc)
       THEN /\ log' = Append(log, LogRec("ERROR", "Validation/API error: " \o exc.msg))
            /\ result' = [statusCode |-> 400,
                          body |-> [message |-> "Request validation or API error",
                                    error |-> exc.msg]]
            /\ pc' = "returned"
       ELSE IF IsCaught(exc)
       THEN /\ log' = Append(log, LogRec("ERROR", "Unexpected error: " \o exc.msg))
            /\ result' = [statusCode |-> 500,
                          body |-> [message |-> "Internal server error",
                                    error |-> exc.msg]]
            /\ pc' = "returned"
       ELSE /\ pc' = "raised"
            /\ UNCHANGED <<result, log>>
    /\ UNCHANGED <<env, contact_data, parameters, phone_number, custom_data,
                   request_type, api_response, response_data, api_key, response,
                   exc, outbound>>

(* --------------------------- specification ----------------------------- *)

Next ==
    \/ Invoke
    \/ ExtractEvent
    \/ ValidatePhone
    \/ ExtractCustomData
    \/ ExtractRequestType
    \/ Dispatch
    \/ CheckApiKey
    \/ Post
    \/ RaiseForStatus
    \/ ParseJson
    \/ MprExcept
    \/ PostResponseData
    \/ AssembleResponse
    \/ HandleError

Spec == Init /\ [][Next]_vars

\* a started invocation runs to completion: the runtime executes the handler
\* single-threaded and every step of it is enabled until it returns
Step ==
    \/ ExtractEvent
    \/ ValidatePhone
    \/ ExtractCustomData
    \/ ExtractRequestType
    \/ Dispatch
    \/ CheckApiKey
    \/ Post
    \/ RaiseForStatus
    \/ ParseJson
    \/ MprExcept
    \/ PostResponseData
    \/ AssembleResponse
    \/ HandleError

FairSpec == Spec /\ WF_vars(Step)

TypeOK == pc \in {"idle", "extract", "phone", "custom_data", "request_type",
                  "dispatch", "mpr_key", "mpr_post", "mpr_status", "mpr_json",
                  "mpr_except", "post_return", "assemble", "except",
                  "returned", "raised"}

(* ------------------- reading the event, for the claims ----------------- *)

\* member `key` of v, Absent when v is not a mapping or has no such key
Member(v, key) ==
    IF v.tag = "dict" /\ key \in DOMAIN v.d THEN v.d[key] ELSE Absent

EventDetails == Member(event, "Details")
EventContactData == Member(EventDetails, "ContactData")
EventCustomerEndpoint == Member(EventContactData, "CustomerEndpoint")
EventAddress == Member(EventCustomerEndpoint, "Address")
EventParameters == Member(EventDetails, "Parameters")
EventRequestType == Member(EventParameters, "requestType")
EventCustomData == Member(EventParameters, "customData")

AbsentOrMapping(v) == v.tag \in {"absent", "dict"}

\* absent, null or the empty string
AbsentOrEmpty(v) == v \in {Absent, None_, Str("")}

\* every level on the way to Address is a mapping or is left out
AddressPathIsMappings ==
    /\ event.tag = "dict"
    /\ AbsentOrMapping(EventDetails)
    /\ AbsentOrMapping(EventContactData)
    /\ AbsentOrMapping(EventCustomerEndpoint)

Returned == pc = "returned"

Called == Len(outbound) > 0

Is2xx(code) == 200 <= code /\ code < 300

ValidationMessages ==
    {"Missing phone number in request", "Missing requestType parameter"} \cup
    {"Invalid requestType: " \o PyStr(rt) : rt \in {Str("put")}}

(* -------------------------------- C1 ----------------------------------- *)

\* C1: every invocation, whatever the event and whatever the outbound call
\* does, ends by returning a result whose statusCode is 200, 400 or 500, and
\* no exception leaves the handler.
C1_AlwaysReturnsResult ==
    /\ [](pc # "raised")
    /\ [](Returned => result.statusCode \in {200, 400, 500})
    /\ (pc = "extract") ~> (Returned /\ result.statusCode \in {200, 400, 500})

\* a malformed event was converted into a 500 result
C1_Witness ==
    /\ Returned
    /\ ~AddressPathIsMappings
    /\ result.statusCode = 500
    /\ exc.type = "AttributeError"

(* -------------------------------- C2 ----------------------------------- *)

\* C2 as stated: the POST is made if and only if requestType is "post".
C2_Original == Returned => (Called <=> EventRequestType = Str("post"))

\* C2 amended: the POST is made only if requestType is "post", and it is made
\* exactly when moreover the phone number is non-empty and the API key is set.
C2_CallIffPostPhoneAndKey ==
    /\ Called => EventRequestType = Str("post")
    /\ Returned =>
         (Called <=> /\ EventRequestType = Str("post")
                     /\ Truthy(EventAddress)
                     /\ Truthy(env_api_key))

\* a "post" event that made the call, and a returned one
C2_Witness == Returned /\ Called /\ EventRequestType = Str("post")

(* -------------------------------- C3 ----------------------------------- *)

DecodeFailed ==
    /\ Returned
    /\ Called
    /\ Is2xx(response.status_code)
    /\ ~IsJson(response.text)

\* C3 as stated: a 2xx response with an undecodable body ends in the 500 path.
C3_Original ==
    DecodeFailed =>
        /\ result.statusCode = 500
        /\ result.body.message = "Internal server error"

\* C3 amended: a 2xx response with an undecodable body ends in the 400 path:
\* the decode error is a ValueError, or a RequestException that
\* make_post_request wraps into APIError.
C3_DecodeFailureIs400 ==
    DecodeFailed =>
        /\ result.statusCode = 400
        /\ result.body.message = "Request validation or API error"
        /\ result.body.error =
             IF json_error_class = "requests.JSONDecodeError"
             THEN "API request failed: Expecting value: line 1 column 1 (char 0)"
             ELSE "Expecting value: line 1 column 1 (char 0)"

\* the decode error reached the handler unwrapped
C3_Witness == DecodeFailed /\ exc.type = "json.JSONDecodeError"

(* -------------------------------- C4 ----------------------------------- *)

MissingPhoneResult ==
    /\ result.statusCode = 400
    /\ result.body.error = "Missing phone number in request"
    /\ ~Called

\* C4 as stated: every event without a (non-empty) Address gives 400
\* "Missing phone number in request" and no call.
C4_Original == (Returned /\ AbsentOrEmpty(EventAddress)) => MissingPhoneResult

\* C4 amended: so it is when the event, Details, ContactData and
\* CustomerEndpoint are each a mapping or left out.
C4_MissingPhoneIs400 ==
    (Returned /\ AddressPathIsMappings /\ AbsentOrEmpty(EventAddress))
        => MissingPhoneResult

\* an empty Address together with a "post" request and a configured key
C4_Witness ==
    /\ Returned
    /\ EventAddress = Str("")
    /\ EventRequestType = Str("post")
    /\ Truthy(env_api_key)
    /\ result.statusCode = 400

(* -------------------------------- C5 ----------------------------------- *)

BadRequestType ==
    /\ Returned
    /\ Truthy(EventAddress)
    /\ EventRequestType \notin {Str("post"), Str("get")}

\* C5 as stated: absent gives "Missing requestType parameter", every other
\* value that is not "post" or "get" gives "Invalid requestType: <value>".
C5_Original ==
    BadRequestType =>
        /\ result.statusCode = 400
        /\ ~Called
        /\ result.body.error =
             IF EventRequestType = Absent
             THEN "Missing requestType parameter"
             ELSE "Invalid requestType: " \o PyStr(EventRequestType)

\* C5 amended: with Parameters a mapping or left out, a requestType that is
\* absent, null or empty gives "Missing requestType parameter" and any other
\* value that is not "post" or "get" gives "Invalid requestType: <value>".
C5_BadRequestTypeIs400 ==
    (BadRequestType /\ AbsentOrMapping(EventParameters)) =>
        /\ result.statusCode = 400
        /\ ~Called
        /\ result.body.error =
             IF AbsentOrEmpty(EventRequestType)
             THEN "Missing requestType parameter"
             ELSE "Invalid requestType: " \o PyStr(EventRequestType)

\* an unknown request type was rejected by name
C5_Witness ==
    /\ BadRequestType
    /\ EventRequestType = Str("put")
    /\ result.body.error = "Invalid requestType: put"

(* -------------------------------- C6 ----------------------------------- *)

PostCase == EventRequestType = Str("post") /\ Truthy(EventAddress)

ApiErrorResult(original) ==
    /\ result.statusCode = 400
    /\ result.body.message = "Request validation or API error"
    /\ result.body.error = "API request failed: " \o original

\* the call ended without a response
TransportFailed == Called /\ response = NoResponse

\* C6 as stated: connection failure, timeout and every non-2xx status give
\* 400 with "API request failed: <original message>".
C6_Original ==
    /\ (pc = "except") => ~IsInstance(exc, "RequestException")
    /\ (Returned /\ PostCase /\ TransportFailed) =>
          \E e \in TransportErrors : ApiErrorResult(e.msg)
    /\ (Returned /\ PostCase /\ Called /\ response # NoResponse
          /\ ~Is2xx(response.status_code)) =>
          ApiErrorResult(StatusText(response.status_code))

\* C6 amended: connection failure, timeout and every 4xx or 5xx status are
\* re-raised as APIError and give 400 with "API request failed: <original
\* message>"; no RequestException reaches the handler.
C6_TransportFailureIs400 ==
    /\ (pc = "except") => ~IsInstance(exc, "RequestException")
    /\ (Returned /\ PostCase /\ TransportFailed) =>
          \E e \in TransportErrors : ApiErrorResult(e.msg)
    /\ (Returned /\ PostCase /\ Called /\ response # NoResponse
          /\ 400 <= response.status_code /\ response.status_code < 600) =>
          ApiErrorResult(StatusText(response.status_code))

\* a timed-out call was reported as an API error
C6_Witness ==
    /\ Returned
    /\ PostCase
    /\ TransportFailed
    /\ result.body.error = "API request failed: Read timed out. (read timeout=5)"

(* -------------------------------- C7 ----------------------------------- *)

\* C7: "post" with a phone number and no (or an empty) API key gives 400
\* "Missing API key", and no request is sent at any point.
C7_MissingKeyIs400 ==
    (PostCase /\ ~Truthy(env_api_key)) =>
        /\ ~Called
        /\ Returned =>
             /\ result.statusCode = 400
             /\ result.body.error = "Missing API key"

\* the key is set to the empty string
C7_Witness ==
    /\ Returned
    /\ PostCase
    /\ env_api_key = Str("")
    /\ result.statusCode = 400

(* -------------------------------- C8 ----------------------------------- *)

GetCase == EventRequestType = Str("get") /\ Truthy(EventAddress)

\* C8: "get" with a phone number always gives 200 with the stub message and
\* the original Parameters, whatever customData and the key are, and no
\* request is sent.
C8_GetIsStub ==
    GetCase =>
        /\ ~Called
        /\ Returned =>
             result = [statusCode |-> 200,
                       body |-> [message |-> "GET request not implemented",
                                 parameters |-> EventParameters]]

\* a "get" without customData and without a key
C8_Witness ==
    /\ Returned
    /\ GetCase
    /\ EventCustomData = Absent
    /\ env_api_key = None_
    /\ result.statusCode = 200

(* -------------------------------- C9 ----------------------------------- *)

PostSucceeded ==
    /\ Returned
    /\ PostCase
    /\ Truthy(env_api_key)
    /\ Called
    /\ Is2xx(response.status_code)
    /\ IsJson(response.text)

ExpectedData ==
    IF EventCustomData \in {Absent, None_, Dict(<<>>)}
    THEN Dict(<<>>)
    ELSE EventCustomData

\* C9: a successful "post" sends {phone_number: Address, data: customData},
\* with data the empty mapping (and a warning logged) when customData is
\* absent or empty, and returns 200 with the decoded API response, the
\* success message and the original Parameters.
C9_PostSuccess ==
    PostSucceeded =>
        /\ Len(outbound) = 1
        /\ outbound[1].json = [phone_number |-> EventAddress,
                               data |-> ExpectedData]
        /\ outbound[1].headers.x_api_key = env_api_key
        /\ (EventCustomData \in {Absent, None_, Dict(<<>>)}) =>
              \E i \in 1..Len(log) : log[i].level = "WARNING"
        /\ result = [statusCode |-> 200,
                     body |-> [api_response |-> JsonLoads(response.text),
                               message |-> "Successfully processed POST request",
                               parameters |-> EventParameters]]

\* a successful "post" without customData
C9_Witness ==
    /\ PostSucceeded
    /\ EventCustomData = Absent
    /\ response.text = "{\"status\": \"ok\"}"

(* -------------------------------- C10 ---------------------------------- *)

\* C10: at most one request is sent per invocation, and only once the phone
\* number, then the request type, then the API key have been accepted; the
\* error reported is that of the first check that fails, and a 400 for a
\* validation failure or a missing key is never preceded by a request.
C10_ChecksBeforeSingleCall ==
    /\ Len(outbound) <= 1
    /\ Called =>
         /\ Truthy(phone_number)
         /\ request_type = Str("post")
         /\ Truthy(api_key)
         /\ PostCase
         /\ Truthy(env_api_key)
    /\ (pc = "mpr_key") => (Truthy(phone_number) /\ request_type = Str("post"))
    /\ (pc \in {"request_type", "dispatch"}) => Truthy(phone_number)
    /\ (Returned /\ result.statusCode = 400) =>
         /\ (result.body.error = "Missing API key") => PostCase
         /\ (result.body.error \in ValidationMessages
               /\ result.body.error # "Missing phone number in request")
               => Truthy(EventAddress)
         /\ (result.body.error \in ValidationMessages \cup {"Missing API key"})
               => ~Called

\* phone number, request type and key all fail at once
C10_Witness ==
    /\ Returned
    /\ AbsentOrEmpty(EventAddress)
    /\ EventRequestType = Str("put")
    /\ ~Truthy(env_api_key)
    /\ result.statusCode = 400
    /\ result.body.error = "Missing phone number in request"
====
